---- MODULE Spec2Model ----
(***************************************************************************)
(* Multithreaded write-back block cache (cachetest.c).                     *)
(*                                                                         *)
(* Two revisions of the cache are modelled:                                *)
(*   - the single-lock variant (src/unnamed/part_000): putToEnd takes      *)
(*     orderMutex, CACHESIZE = 4;                                          *)
(*   - the counted-access variant (src/cachetest.c): orderCount and the    *)
(*     condition orderCountZero guard the recency order, CACHESIZE = 10.   *)
(* Each tester thread is a small program counter machine; one action is    *)
(* one step between two accesses to shared memory.                         *)
(***************************************************************************)
EXTENDS Integers, Sequences, FiniteSets, TLC

VARIABLES
  cfg,             \* the run's parameters, fixed by Init
  cache,           \* cache[s] = [blocknum, dirty, block]
  mutex,           \* mutex[s]: the thread that holds cache[s].mutex, or NoThread
  orderArray,      \* orderArray[k], k in 0..size-1
  orderMutex,      \* holder of orderMutex (single-lock variant)
  orderCount,      \* counted-access variant
  orderCountMutex, \* holder of orderCountMutex
  waiters,         \* threads blocked in scond_wait(&orderCountZero, ...)
  blockData,       \* the simulated disk
  th,              \* th[t]: the locals and position of tester thread t
  useOrder,        \* history: slots from least to most recently touched
  latest,          \* history: latest[b] = payload of the last returned writeblock(b)
  lastWrite,       \* history: lastWrite[s] = <<b, v>> of the last writeblock(b, v) that wrote slot s
  touched,         \* history: block ids passed to readblock/writeblock so far
  hist             \* history: the calls so far while they have the shape of scenario A

vars == <<cfg, cache, mutex, orderArray, orderMutex, orderCount, orderCountMutex,
          waiters, blockData, th, useOrder, latest, lastWrite, touched, hist>>

counted == <<orderCount, orderCountMutex, waiters>>

-----------------------------------------------------------------------------
(* Program constants *)

NBLOCKS == 100
INVALID == -1
CACHESIZE == 4
CACHESIZE_COUNTED == 10

(* Bounds of the model *)

NumThreads == 2       \* tester threads of the concurrent specifications
MaxTests == 2         \* calls per tester thread, concurrent specifications
NumBlocks == 2        \* block ids in use, concurrent specifications
NumValues == 2        \* distinct payloads a tester may write to one block
SeqTests == 6         \* calls of the single tester of SpecSeq
SeqBlocks == 2        \* block ids in use in SpecSeq
LruTests == 6         \* calls of the single tester of SpecLru
LruBlocks == 5        \* block ids in use in SpecLru
FairBlocks == 1       \* block ids in use in SpecFair
CountedTests == 1     \* calls per tester thread, counted-access variant
CountedBlocks == 2    \* block ids in use, counted-access variant
PteCalls == 3         \* calls of putToEnd in SpecPutToEnd

NoThread == 0
Threads == 1..NumThreads
Off == <<[op |-> "off", blocknum |-> 0, block |-> 0]>>

Blocks == 0..(cfg.nblocks - 1)
Slots == 0..(cfg.size - 1)

Max(S) == CHOOSE x \in S : \A y \in S : y <= x

\* tester(): *(int *)block = n * NBLOCKS + blocknum
TesterPayload(n, blocknum) == n * NBLOCKS + blocknum

\* main(): memcpy(blockData[i], (char *) &i, BLOCKSIZE)
SeedData(nb) == [b \in 0..(nb - 1) |-> b]

-----------------------------------------------------------------------------
(* Simulated disk *)

\* dblockread: the payload copied out of blockData[blocknum]
dblockread(blocknum) == blockData[blocknum]

\* dblockwrite: blockData after memcpy(blockData[blocknum], block, BLOCKSIZE)
dblockwrite(block, blocknum) ==
  IF blocknum \in DOMAIN blockData
    THEN [blockData EXCEPT ![blocknum] = block]
    ELSE blockData

-----------------------------------------------------------------------------
(* putToEnd, as the three phases of its body *)

\* a search that always answers position 0
StartPositionFirst(arr, indexTemp) == 0

\* first loop: the last position holding indexTemp, 0 when there is none
StartPosition(arr, indexTemp) ==
  LET found == {i \in DOMAIN arr : arr[i] = indexTemp}
  IN  IF found = {} THEN 0 ELSE Max(found)

\* second loop: for (j = startPosition; j < CACHESIZE-1; j++) arr[j] = arr[j+1]
ShiftOffByOne(arr, startPosition) ==
  [j \in DOMAIN arr |->
     IF j > startPosition /\ j < Max(DOMAIN arr) THEN arr[j + 1] ELSE arr[j]]

Shift(arr, startPosition) ==
  [j \in DOMAIN arr |->
     IF j >= startPosition /\ j < Max(DOMAIN arr) THEN arr[j + 1] ELSE arr[j]]

\* orderArray[CACHESIZE-1] = indexTemp
TailStoreSkipped(arr, indexTemp) == arr

TailStore(arr, indexTemp) == [arr EXCEPT ![Max(DOMAIN arr)] = indexTemp]

\* the whole of putToEnd's effect on the array
PutToEndArray(arr, indexTemp) ==
  TailStore(Shift(arr, StartPosition(arr, indexTemp)), indexTemp)

IsPermutation(arr) ==
  /\ DOMAIN arr = Slots
  /\ \A s \in Slots : Cardinality({k \in DOMAIN arr : arr[k] = s}) = 1

-----------------------------------------------------------------------------
(* History bookkeeping *)

\* s becomes the most recently touched slot
Touch(order, s) == SelectSeq(order, LAMBDA x : x # s) \o <<s>>

\* the calls so far keep the shape write b1..b5 (pairwise distinct), read b2
ScenarioShape(h) ==
  /\ Len(h) <= 6
  /\ \A k \in 1..Len(h) : (k <= 5) => h[k].op = "write"
  /\ \A j, k \in 1..Len(h) : (j < k /\ k <= 5) => h[j].blocknum # h[k].blocknum
  /\ Len(h) = 6 => (h[6].op = "read" /\ h[6].blocknum = h[2].blocknum)

Record(h, call) ==
  IF ScenarioShape(Append(h, call)) THEN Append(h, call) ELSE Off

-----------------------------------------------------------------------------
(* Initial states: cacheinit() and main()'s seeding of the disk *)

InitThread(on) ==
  [pc |-> IF on THEN "idle" ELSE "off",
   op |-> "none", blocknum |-> 0, block |-> 0,
   cacheFound |-> -1, indexToReplace |-> 0, i |-> 0, startPosition |-> 0,
   n |-> 0, flushed |-> <<>>, expect |-> <<>>, chosen |-> <<>>,
   wasLast |-> FALSE]

cacheinit(variant, size, nthreads, ntests, nblocks, nvals, inorder, spurious) ==
  /\ cfg = [variant |-> variant, size |-> size, ntests |-> ntests,
            nblocks |-> nblocks, nvals |-> nvals, inorder |-> inorder,
            spurious |-> spurious]
  /\ cache = [s \in 0..(size - 1) |->
                [blocknum |-> INVALID, dirty |-> FALSE, block |-> 0]]
  /\ mutex = [s \in 0..(size - 1) |-> NoThread]
  /\ orderArray = [j \in 0..(size - 1) |-> j]
  /\ orderMutex = NoThread
  /\ orderCount = 0
  /\ orderCountMutex = NoThread
  /\ waiters = {}
  /\ blockData = SeedData(nblocks)
  /\ th = [t \in Threads |-> InitThread(t <= nthreads)]
  /\ useOrder = [k \in 1..size |-> k - 1]
  /\ latest = SeedData(nblocks)
  /\ lastWrite = [s \in 0..(size - 1) |-> <<>>]
  /\ touched = {}
  /\ hist = <<>>

Init == cacheinit("single", CACHESIZE, NumThreads, MaxTests, NumBlocks, NumValues, FALSE, FALSE)

InitSeq == cacheinit("single", CACHESIZE, 1, SeqTests, SeqBlocks, NumValues, FALSE, FALSE)

InitLru == cacheinit("single", CACHESIZE, 1, LruTests, LruBlocks, 1, TRUE, FALSE)

\* Counted-access variant.  orderCount is a static int, zero at start; the run
\* either has scond_wait resume only after a broadcast or also spuriously.
InitCounted ==
  \E spurious \in BOOLEAN :
    cacheinit("counted", CACHESIZE_COUNTED, NumThreads, CountedTests, CountedBlocks,
              1, FALSE, spurious)

\* every tester makes one call, and writes the payload tester() gives thread 1
InitOnce == cacheinit("single", CACHESIZE, NumThreads, 1, NumBlocks, 1, FALSE, FALSE)

InitFair == cacheinit("single", CACHESIZE, NumThreads, 1, FairBlocks, 1, FALSE, FALSE)

-----------------------------------------------------------------------------
(* tester(): the loop that issues the calls *)

Miss(t) == th[t].cacheFound = -1

\* The block ids a tester may pass next.  Block ids are interchangeable (the
\* cache only compares them and indexes the disk with them), so a run with
\* cfg.inorder set introduces them in increasing order.
Choices ==
  IF cfg.inorder THEN {b \in Blocks : b <= Cardinality(touched)} ELSE Blocks

\* a write to b by another thread ends what a thread may expect of its own write
Forget(t, b) ==
  [u \in Threads |->
     IF u # t /\ th[u].blocknum = b THEN [th[u] EXCEPT !.expect = <<>>] ELSE th[u]]

TesterWrite(t) ==
  /\ th[t].pc = "idle"
  /\ th[t].n < cfg.ntests
  /\ \E b \in Choices, k \in 1..cfg.nvals :
       /\ th' = [Forget(t, b) EXCEPT ![t] =
                   [th[t] EXCEPT !.pc = IF cfg.variant = "single" THEN "scan" ELSE "c_enter",
                                 !.op = "write", !.blocknum = b,
                                 !.block = TesterPayload(k, b),
                                 !.cacheFound = -1, !.indexToReplace = 0, !.i = 0,
                                 !.expect = <<>>]]
       /\ touched' = touched \cup {b}
       /\ hist' = Record(hist, [op |-> "write", blocknum |-> b,
                                block |-> TesterPayload(k, b)])
  /\ UNCHANGED <<cfg, cache, mutex, orderArray, orderMutex, orderCount,
                 orderCountMutex, waiters, blockData, useOrder, latest, lastWrite>>

TesterRead(t) ==
  /\ th[t].pc = "idle"
  /\ th[t].n < cfg.ntests
  /\ \E b \in Choices :
       /\ th' = [th EXCEPT ![t] =
                   [th[t] EXCEPT !.pc = IF cfg.variant = "single" THEN "scan" ELSE "c_enter",
                                 !.op = "read", !.blocknum = b,
                                 !.cacheFound = -1, !.indexToReplace = 0, !.i = 0,
                                 !.expect = IF th[t].op = "write" /\ th[t].blocknum = b
                                              THEN th[t].expect ELSE <<>>]]
       /\ touched' = touched \cup {b}
       /\ hist' = Record(hist, [op |-> "read", blocknum |-> b, block |-> 0])
  /\ UNCHANGED <<cfg, cache, mutex, orderArray, orderMutex, orderCount,
                 orderCountMutex, waiters, blockData, useOrder, latest, lastWrite>>

\* sthread_exit(100 + n) after NTESTS calls
TesterExit(t) ==
  /\ th[t].pc = "idle"
  /\ th[t].n = cfg.ntests
  /\ th' = [th EXCEPT ![t].pc = "exited"]
  /\ UNCHANGED <<cfg, cache, mutex, orderArray, orderMutex, orderCount,
                 orderCountMutex, waiters, blockData, useOrder, latest, lastWrite, touched, hist>>

-----------------------------------------------------------------------------
(* Single-lock variant: readblock and writeblock, step by step *)

Idx(t) == th[t].indexToReplace

InCall(t) == th[t].pc \notin {"idle", "exited", "off"}

\* another thread is inside writeblock for block b
OtherWriter(t, b) ==
  \E u \in Threads : u # t /\ InCall(u) /\ th[u].op = "write" /\ th[u].blocknum = b

\* the call returns to tester(), which goes round its loop
Returned(rec) == [rec EXCEPT !.pc = "idle", !.n = rec.n + 1, !.chosen = <<>>]

\* for (i = 0; i < CACHESIZE; i++) if (cache[i].blocknum == blocknum) {...; break;}
ScanStep(t) ==
  /\ th[t].pc = "scan"
  /\ th' = [th EXCEPT ![t] =
       IF cache[th[t].i].blocknum = th[t].blocknum
         THEN [th[t] EXCEPT !.cacheFound = th[t].i, !.indexToReplace = th[t].i,
                            !.pc = "lock"]
         ELSE IF th[t].i + 1 < cfg.size
                THEN [th[t] EXCEPT !.i = th[t].i + 1]
                ELSE [th[t] EXCEPT !.pc = "head"]]
  /\ UNCHANGED <<cfg, cache, mutex, orderArray, orderMutex, counted, blockData,
                 useOrder, latest, lastWrite, touched, hist>>

\* the block id and payload a slot holds
Content(slot) == <<slot.blocknum, slot.block>>

\* indexToReplace = orderArray[0], read without holding orderMutex; chosen
\* keeps what the victim held at this moment
ReadHead(t) ==
  /\ th[t].pc = "head"
  /\ th' = [th EXCEPT ![t].indexToReplace = orderArray[0], ![t].pc = "lock",
                      ![t].chosen = Content(cache[orderArray[0]])]
  /\ UNCHANGED <<cfg, cache, mutex, orderArray, orderMutex, counted, blockData,
                 useOrder, latest, lastWrite, touched, hist>>

\* a lock that does not wait for the holder to unlock
LockSlotNoWait(t) ==
  /\ th[t].pc = "lock"
  /\ mutex' = [mutex EXCEPT ![Idx(t)] = t]
  /\ th' = [th EXCEPT ![t].pc = "pte_lock", ![t].flushed = <<>>,
                      ![t].wasLast = FALSE]
  /\ useOrder' = Touch(useOrder, Idx(t))
  /\ UNCHANGED <<cfg, cache, orderArray, orderMutex, counted, blockData,
                 latest, lastWrite, touched, hist>>

\* smutex_lock(&cache[indexToReplace].mutex)
LockSlot(t) ==
  /\ th[t].pc = "lock"
  /\ mutex[Idx(t)] = NoThread
  /\ mutex' = [mutex EXCEPT ![Idx(t)] = t]
  /\ th' = [th EXCEPT ![t].pc = "pte_lock", ![t].flushed = <<>>,
                      ![t].wasLast = FALSE]
  /\ useOrder' = Touch(useOrder, Idx(t))
  /\ UNCHANGED <<cfg, cache, orderArray, orderMutex, counted, blockData,
                 latest, lastWrite, touched, hist>>

\* putToEnd: smutex_lock(&orderMutex) and the loop that finds startPosition
PteLock(t) ==
  /\ th[t].pc = "pte_lock"
  /\ orderMutex = NoThread
  /\ orderMutex' = t
  /\ th' = [th EXCEPT ![t].startPosition = StartPosition(orderArray, Idx(t)),
                      ![t].pc = "pte_shift"]
  /\ UNCHANGED <<cfg, cache, mutex, orderArray, counted, blockData,
                 useOrder, latest, lastWrite, touched, hist>>

\* putToEnd: the reshuffling loop
PteShift(t) ==
  /\ th[t].pc = "pte_shift"
  /\ orderArray' = Shift(orderArray, th[t].startPosition)
  /\ th' = [th EXCEPT ![t].pc = "pte_tail"]
  /\ UNCHANGED <<cfg, cache, mutex, orderMutex, counted, blockData,
                 useOrder, latest, lastWrite, touched, hist>>

\* where the caller of putToEnd goes on
AfterPutToEnd(t) ==
  IF Miss(t) THEN "flush"
  ELSE IF th[t].op = "read" THEN "hit_read" ELSE "hit_write"

\* the holder of orderMutex after smutex_unlock(&orderMutex)
OrderMutexKept(t) == t

OrderMutexReleased(t) == NoThread

\* putToEnd: orderArray[CACHESIZE-1] = indexTemp; smutex_unlock(&orderMutex);
\* wasLast keeps whether the slot is now the last element
PteTail(t) ==
  /\ th[t].pc = "pte_tail"
  /\ orderMutex = t
  /\ orderArray' = TailStore(orderArray, Idx(t))
  /\ orderMutex' = OrderMutexReleased(t)
  /\ th' = [th EXCEPT ![t].pc = AfterPutToEnd(t),
                      ![t].wasLast = (orderArray'[cfg.size - 1] = Idx(t))]
  /\ UNCHANGED <<cfg, cache, mutex, counted, blockData,
                 useOrder, latest, lastWrite, touched, hist>>

\* if (cache[indexToReplace].dirty) dblockwrite(block, blocknum)
Flush(t) ==
  /\ th[t].pc = "flush"
  /\ LET slot == cache[Idx(t)] IN
       /\ blockData' = IF slot.dirty THEN dblockwrite(slot.block, slot.blocknum)
                       ELSE blockData
       /\ th' = [th EXCEPT
            ![t].flushed = IF slot.dirty
                             THEN Append(th[t].flushed, <<slot.blocknum, slot.block>>)
                             ELSE th[t].flushed,
            ![t].pc = IF th[t].op = "read" THEN "load" ELSE "install"]
  /\ UNCHANGED <<cfg, cache, mutex, orderArray, orderMutex, counted,
                 useOrder, latest, lastWrite, touched, hist>>

\* readblock, miss: the slot after dblockread(cache[indexToReplace].block, blocknum);
\* this variant leaves the slot's blocknum as it was
Loaded(slot, blocknum, data) == [slot EXCEPT !.block = data]

Load(t) ==
  /\ th[t].pc = "load"
  /\ cache' = [cache EXCEPT ![Idx(t)] =
                 Loaded(cache[Idx(t)], th[t].blocknum, dblockread(th[t].blocknum))]
  /\ th' = [th EXCEPT ![t].pc = "miss_read"]
  /\ UNCHANGED <<cfg, mutex, orderArray, orderMutex, counted, blockData,
                 useOrder, latest, lastWrite, touched, hist>>

\* readblock, miss: dirty = false; memcpy(block, ...); smutex_unlock
MissRead(t) ==
  /\ th[t].pc = "miss_read"
  /\ cache' = [cache EXCEPT ![Idx(t)].dirty = FALSE]
  /\ mutex' = [mutex EXCEPT ![Idx(t)] = NoThread]
  /\ th' = [th EXCEPT ![t] = Returned([th[t] EXCEPT !.block = cache[Idx(t)].block])]
  /\ UNCHANGED <<cfg, orderArray, orderMutex, counted, blockData,
                 useOrder, latest, lastWrite, touched, hist>>

\* a write that leaves the slot's blocknum as it was
WrittenNotRenamed(slot, blocknum, block) ==
  [slot EXCEPT !.dirty = TRUE, !.block = block]

\* writeblock: blocknum = blocknum; dirty = true; memcpy(cache block, block)
Written(slot, blocknum, block) ==
  [blocknum |-> blocknum, dirty |-> TRUE, block |-> block]

\* what the writer may expect of a read that follows its write
Expect(t) == IF OtherWriter(t, th[t].blocknum) THEN <<>> ELSE <<th[t].block>>

\* writeblock, miss: the three assignments and smutex_unlock
Install(t) ==
  /\ th[t].pc = "install"
  /\ cache' = [cache EXCEPT ![Idx(t)] = Written(cache[Idx(t)], th[t].blocknum, th[t].block)]
  /\ mutex' = [mutex EXCEPT ![Idx(t)] = NoThread]
  /\ th' = [th EXCEPT ![t] = Returned([th[t] EXCEPT !.expect = Expect(t)])]
  /\ latest' = [latest EXCEPT ![th[t].blocknum] = th[t].block]
  /\ lastWrite' = [lastWrite EXCEPT ![Idx(t)] = <<th[t].blocknum, th[t].block>>]
  /\ UNCHANGED <<cfg, orderArray, orderMutex, counted, blockData,
                 useOrder, touched, hist>>

\* readblock, hit: memcpy(block, cache[indexToReplace].block); smutex_unlock
HitRead(t) ==
  /\ th[t].pc = "hit_read"
  /\ mutex' = [mutex EXCEPT ![Idx(t)] = NoThread]
  /\ th' = [th EXCEPT ![t] = Returned([th[t] EXCEPT !.block = cache[Idx(t)].block])]
  /\ UNCHANGED <<cfg, cache, orderArray, orderMutex, counted, blockData,
                 useOrder, latest, lastWrite, touched, hist>>

\* writeblock, hit: the three assignments and smutex_unlock
HitWrite(t) ==
  /\ th[t].pc = "hit_write"
  /\ cache' = [cache EXCEPT ![Idx(t)] = Written(cache[Idx(t)], th[t].blocknum, th[t].block)]
  /\ mutex' = [mutex EXCEPT ![Idx(t)] = NoThread]
  /\ th' = [th EXCEPT ![t] = Returned([th[t] EXCEPT !.expect = Expect(t)])]
  /\ latest' = [latest EXCEPT ![th[t].blocknum] = th[t].block]
  /\ lastWrite' = [lastWrite EXCEPT ![Idx(t)] = <<th[t].blocknum, th[t].block>>]
  /\ UNCHANGED <<cfg, orderArray, orderMutex, counted, blockData,
                 useOrder, touched, hist>>

Step(t) ==
  \/ TesterWrite(t)
  \/ TesterRead(t)
  \/ TesterExit(t)
  \/ ScanStep(t)
  \/ ReadHead(t)
  \/ LockSlot(t)
  \/ PteLock(t)
  \/ PteShift(t)
  \/ PteTail(t)
  \/ Flush(t)
  \/ Load(t)
  \/ MissRead(t)
  \/ Install(t)
  \/ HitRead(t)
  \/ HitWrite(t)

Next == \E t \in Threads : Step(t)

Spec == Init /\ [][Next]_vars

SpecSeq == InitSeq /\ [][Next]_vars

SpecLru == InitLru /\ [][Next]_vars

SpecOnce == InitOnce /\ [][Next]_vars

SpecFair == InitFair /\ [][Next]_vars /\ \A t \in Threads : WF_vars(Step(t))

-----------------------------------------------------------------------------
(* Counted-access variant (cachetest.c): readblock and writeblock *)

\* scond_wait(&orderCountZero, &orderCountMutex): release the mutex and block
Wait(t, pc) ==
  /\ orderCountMutex' = NoThread
  /\ waiters' = waiters \cup {t}
  /\ th' = [th EXCEPT ![t].pc = pc]

\* scond_broadcast(&orderCountZero, &orderCountMutex): nobody is left waiting
Broadcast == {}

\* smutex_lock(&orderCountMutex), at each of the four places that take it
CLockCount(t) ==
  /\ th[t].pc \in {"c_enter", "c_exit", "c_wait", "c_done"}
  /\ orderCountMutex = NoThread
  /\ orderCountMutex' = t
  /\ th' = [th EXCEPT ![t].pc =
       CASE th[t].pc = "c_enter" -> "c_enter_chk"
         [] th[t].pc = "c_exit"  -> "c_exit_body"
         [] th[t].pc = "c_wait"  -> "c_wait_chk"
         [] th[t].pc = "c_done"  -> "c_done_body"]
  /\ UNCHANGED <<cfg, cache, mutex, orderArray, orderMutex, orderCount, waiters,
                 blockData, useOrder, latest, lastWrite, touched, hist>>

\* entry: while (orderCount == 0) { scond_wait(...); orderCount += 1; }
EntryWaits(count) == count = 0

CEnterCheck(t) ==
  /\ th[t].pc = "c_enter_chk"
  /\ IF EntryWaits(orderCount)
       THEN Wait(t, "c_enter_wait")
       ELSE /\ orderCountMutex' = NoThread
            /\ th' = [th EXCEPT ![t].pc = "c_scan"]
            /\ UNCHANGED waiters
  /\ UNCHANGED <<cfg, cache, mutex, orderArray, orderMutex, orderCount,
                 blockData, useOrder, latest, lastWrite, touched, hist>>

\* scond_wait returns with the mutex held again; orderCount += 1
CEnterWake(t) ==
  /\ th[t].pc = "c_enter_wait"
  /\ t \notin waiters
  /\ orderCountMutex = NoThread
  /\ orderCountMutex' = t
  /\ orderCount' = orderCount + 1
  /\ th' = [th EXCEPT ![t].pc = "c_enter_chk"]
  /\ UNCHANGED <<cfg, cache, mutex, orderArray, orderMutex, waiters,
                 blockData, useOrder, latest, lastWrite, touched, hist>>

\* a wakeup of scond_wait that no broadcast caused
CSpurious(t) ==
  /\ cfg.spurious
  /\ t \in waiters
  /\ waiters' = waiters \ {t}
  /\ UNCHANGED <<cfg, cache, mutex, orderArray, orderMutex, orderCount,
                 orderCountMutex, blockData, th, useOrder, latest, lastWrite, touched, hist>>

CScanStep(t) ==
  /\ th[t].pc = "c_scan"
  /\ th' = [th EXCEPT ![t] =
       IF cache[th[t].i].blocknum = th[t].blocknum
         THEN [th[t] EXCEPT !.cacheFound = th[t].i, !.indexToReplace = th[t].i,
                            !.pc = "c_lock"]
         ELSE IF th[t].i + 1 < cfg.size
                THEN [th[t] EXCEPT !.i = th[t].i + 1]
                ELSE [th[t] EXCEPT !.pc = "c_head"]]
  /\ UNCHANGED <<cfg, cache, mutex, orderArray, orderMutex, counted, blockData,
                 useOrder, latest, lastWrite, touched, hist>>

CReadHead(t) ==
  /\ th[t].pc = "c_head"
  /\ th' = [th EXCEPT ![t].indexToReplace = orderArray[0], ![t].pc = "c_lock"]
  /\ UNCHANGED <<cfg, cache, mutex, orderArray, orderMutex, counted, blockData,
                 useOrder, latest, lastWrite, touched, hist>>

CLockSlot(t) ==
  /\ th[t].pc = "c_lock"
  /\ mutex[Idx(t)] = NoThread
  /\ mutex' = [mutex EXCEPT ![Idx(t)] = t]
  /\ th' = [th EXCEPT ![t].flushed = <<>>,
                      ![t].pc = IF Miss(t) THEN "c_flush"
                                ELSE IF th[t].op = "read" THEN "c_hit_read"
                                ELSE "c_hit_write"]
  /\ useOrder' = Touch(useOrder, Idx(t))
  /\ UNCHANGED <<cfg, cache, orderArray, orderMutex, counted, blockData,
                 latest, lastWrite, touched, hist>>

CFlush(t) ==
  /\ th[t].pc = "c_flush"
  /\ LET slot == cache[Idx(t)] IN
       /\ blockData' = IF slot.dirty THEN dblockwrite(slot.block, slot.blocknum)
                       ELSE blockData
       /\ th' = [th EXCEPT
            ![t].flushed = IF slot.dirty
                             THEN Append(th[t].flushed, <<slot.blocknum, slot.block>>)
                             ELSE th[t].flushed,
            ![t].pc = IF th[t].op = "read" THEN "c_rename" ELSE "c_install"]
  /\ UNCHANGED <<cfg, cache, mutex, orderArray, orderMutex, counted,
                 useOrder, latest, lastWrite, touched, hist>>

\* readblock, miss: blocknum = blocknum; dirty = false
CRename(t) ==
  /\ th[t].pc = "c_rename"
  /\ cache' = [cache EXCEPT ![Idx(t)].blocknum = th[t].blocknum,
                            ![Idx(t)].dirty = FALSE]
  /\ th' = [th EXCEPT ![t].pc = "c_load"]
  /\ UNCHANGED <<cfg, mutex, orderArray, orderMutex, counted, blockData,
                 useOrder, latest, lastWrite, touched, hist>>

\* readblock, miss: dblockread; memcpy(block, ...); smutex_unlock
CLoad(t) ==
  /\ th[t].pc = "c_load"
  /\ cache' = [cache EXCEPT ![Idx(t)].block = dblockread(th[t].blocknum)]
  /\ mutex' = [mutex EXCEPT ![Idx(t)] = NoThread]
  /\ th' = [th EXCEPT ![t].block = dblockread(th[t].blocknum), ![t].pc = "c_exit"]
  /\ UNCHANGED <<cfg, orderArray, orderMutex, counted, blockData,
                 useOrder, latest, lastWrite, touched, hist>>

\* writeblock, miss and hit: the three assignments and smutex_unlock
CInstall(t) ==
  /\ th[t].pc \in {"c_install", "c_hit_write"}
  /\ cache' = [cache EXCEPT ![Idx(t)] = Written(cache[Idx(t)], th[t].blocknum, th[t].block)]
  /\ mutex' = [mutex EXCEPT ![Idx(t)] = NoThread]
  /\ th' = [th EXCEPT ![t].pc = "c_exit"]
  /\ lastWrite' = [lastWrite EXCEPT ![Idx(t)] = <<th[t].blocknum, th[t].block>>]
  /\ UNCHANGED <<cfg, orderArray, orderMutex, counted, blockData,
                 useOrder, latest, touched, hist>>

CHitRead(t) ==
  /\ th[t].pc = "c_hit_read"
  /\ mutex' = [mutex EXCEPT ![Idx(t)] = NoThread]
  /\ th' = [th EXCEPT ![t].block = cache[Idx(t)].block, ![t].pc = "c_exit"]
  /\ UNCHANGED <<cfg, cache, orderArray, orderMutex, counted, blockData,
                 useOrder, latest, lastWrite, touched, hist>>

\* orderCount -= 1; if (orderCount == 0) scond_broadcast(...); smutex_unlock
CExitBody(t) ==
  /\ th[t].pc = "c_exit_body"
  /\ orderCount' = orderCount - 1
  /\ waiters' = IF orderCount - 1 = 0 THEN Broadcast ELSE waiters
  /\ orderCountMutex' = NoThread
  /\ th' = [th EXCEPT ![t].pc = "c_wait"]
  /\ UNCHANGED <<cfg, cache, mutex, orderArray, orderMutex, blockData,
                 useOrder, latest, lastWrite, touched, hist>>

\* before putToEnd: while (orderCount == 0) { scond_wait(...); orderCount -= 1; }
CWaitCheck(t) ==
  /\ th[t].pc = "c_wait_chk"
  /\ IF orderCount = 0
       THEN Wait(t, "c_wait_wait")
       ELSE /\ orderCountMutex' = NoThread
            /\ th' = [th EXCEPT ![t].pc = "c_pte"]
            /\ UNCHANGED waiters
  /\ UNCHANGED <<cfg, cache, mutex, orderArray, orderMutex, orderCount,
                 blockData, useOrder, latest, lastWrite, touched, hist>>

CWaitWake(t) ==
  /\ th[t].pc = "c_wait_wait"
  /\ t \notin waiters
  /\ orderCountMutex = NoThread
  /\ orderCountMutex' = t
  /\ orderCount' = orderCount - 1
  /\ th' = [th EXCEPT ![t].pc = "c_wait_chk"]
  /\ UNCHANGED <<cfg, cache, mutex, orderArray, orderMutex, waiters,
                 blockData, useOrder, latest, lastWrite, touched, hist>>

\* putToEnd, which takes no lock in this variant: the loop that finds startPosition
CPteFind(t) ==
  /\ th[t].pc = "c_pte"
  /\ th' = [th EXCEPT ![t].startPosition = StartPosition(orderArray, Idx(t)),
                      ![t].pc = "c_pte_shift"]
  /\ UNCHANGED <<cfg, cache, mutex, orderArray, orderMutex, counted, blockData,
                 useOrder, latest, lastWrite, touched, hist>>

CPteShift(t) ==
  /\ th[t].pc = "c_pte_shift"
  /\ orderArray' = Shift(orderArray, th[t].startPosition)
  /\ th' = [th EXCEPT ![t].pc = "c_pte_tail"]
  /\ UNCHANGED <<cfg, cache, mutex, orderMutex, counted, blockData,
                 useOrder, latest, lastWrite, touched, hist>>

CPteTail(t) ==
  /\ th[t].pc = "c_pte_tail"
  /\ orderArray' = TailStore(orderArray, Idx(t))
  /\ th' = [th EXCEPT ![t].pc = "c_done"]
  /\ UNCHANGED <<cfg, cache, mutex, orderMutex, counted, blockData,
                 useOrder, latest, lastWrite, touched, hist>>

\* orderCount += 1; scond_broadcast(...); smutex_unlock; return
CDoneBody(t) ==
  /\ th[t].pc = "c_done_body"
  /\ orderCount' = orderCount + 1
  /\ waiters' = Broadcast
  /\ orderCountMutex' = NoThread
  /\ th' = [th EXCEPT ![t] = Returned(th[t])]
  /\ UNCHANGED <<cfg, cache, mutex, orderArray, orderMutex, blockData,
                 useOrder, latest, lastWrite, touched, hist>>

CStep(t) ==
  \/ TesterWrite(t)
  \/ TesterRead(t)
  \/ TesterExit(t)
  \/ CLockCount(t)
  \/ CEnterCheck(t)
  \/ CEnterWake(t)
  \/ CScanStep(t)
  \/ CReadHead(t)
  \/ CLockSlot(t)
  \/ CFlush(t)
  \/ CRename(t)
  \/ CLoad(t)
  \/ CInstall(t)
  \/ CHitRead(t)
  \/ CExitBody(t)
  \/ CWaitCheck(t)
  \/ CWaitWake(t)
  \/ CPteFind(t)
  \/ CPteShift(t)
  \/ CPteTail(t)
  \/ CDoneBody(t)

NextCounted == \E t \in Threads : CStep(t) \/ CSpurious(t)

\* a spurious wakeup may happen; nothing makes it happen
SpecCounted ==
  InitCounted /\ [][NextCounted]_vars /\ \A t \in Threads : WF_vars(CStep(t))

-----------------------------------------------------------------------------
(* putToEnd on its own: calls that run from entry to return with no other  *)
(* thread in between, on the array of either variant                       *)

InitPutToEnd ==
  \E variant \in {"single", "counted"} :
    cacheinit(variant, IF variant = "single" THEN CACHESIZE ELSE CACHESIZE_COUNTED,
              1, PteCalls, NumBlocks, 1, FALSE, FALSE)

\* putToEnd(indexTemp), all of it
PutToEndRun(t, indexTemp) ==
  /\ th[t].pc = "idle"
  /\ th[t].n < cfg.ntests
  /\ orderArray' = PutToEndArray(orderArray, indexTemp)
  /\ th' = [th EXCEPT ![t].indexToReplace = indexTemp, ![t].n = th[t].n + 1]
  /\ useOrder' = Touch(useOrder, indexTemp)
  /\ UNCHANGED <<cfg, cache, mutex, orderMutex, counted, blockData,
                 latest, lastWrite, touched, hist>>

NextPutToEnd == \E t \in Threads, indexTemp \in Slots : PutToEndRun(t, indexTemp)

SpecPutToEnd == InitPutToEnd /\ [][NextPutToEnd]_vars

-----------------------------------------------------------------------------
(* Properties *)

Quiescent == \A t \in Threads : ~InCall(t)

AllExited == \A t \in Threads : th[t].pc \in {"exited", "off"}

JustRead(t) == th[t].pc = "idle" /\ th[t].op = "read"

\* C1: with one client thread, every readblock(b) returns the payload of the
\* most recent preceding writeblock(b, v), or b's seeded payload if b was
\* never written, on a hit and on a miss alike.
C1_ReadReturnsLatestWrite ==
  \A t \in Threads : JustRead(t) => th[t].block = latest[th[t].blocknum]

\* C2: at every quiescent point no two slots hold the same block id other
\* than INVALID.
C2_NoDuplicateBlocknum ==
  Quiescent =>
    \A r, s \in Slots :
      (r # s /\ cache[r].blocknum = cache[s].blocknum) => cache[r].blocknum = INVALID

\* C3: a thread that reads b right after its own writeblock(b, v) returned,
\* with no writeblock(b, .) of any thread in between, reads v.
C3_ReadYourWrite ==
  \A t \in Threads :
    (JustRead(t) /\ th[t].expect # <<>>) => th[t].block = th[t].expect[1]

\* the step in which thread t changes the block id or replaces the payload of
\* the slot it holds
Repurposes(t) ==
  /\ th[t].pc \in {"load", "install", "hit_write"}
  /\ th'[t].pc # th[t].pc
  /\ th[t].blocknum # cache[Idx(t)].blocknum

\* C4: a dirty payload is never dropped: whenever a dirty slot holding block a
\* gets another block id, or the data of another block, the thread making the
\* change has issued, since it locked the slot, exactly one dblockwrite, of
\* the slot's payload to block a.
C4_DirtyFlushedBeforeReuse ==
  [][\A t \in Threads :
       (Repurposes(t) /\ cache[Idx(t)].dirty) =>
          th[t].flushed = <<<<cache[Idx(t)].blocknum, cache[Idx(t)].block>>>>]_vars

\* C5: whenever no thread holds orderMutex, orderArray is a permutation of
\* 0..CACHESIZE-1.
C5_OrderIsPermutation == orderMutex = NoThread => IsPermutation(orderArray)

C5_Witness ==
  /\ orderMutex = NoThread
  /\ orderArray[0] # 0
  /\ \E t \in Threads : th[t].n >= 1
  /\ \E t \in Threads : th[t].pc = "pte_lock"

\* C6: when a missing readblock/writeblock acquires the mutex of the slot it
\* is about to repurpose, that slot is the head of the recency order.
C6_MissLocksHead ==
  [][\A t \in Threads :
       (th[t].pc = "lock" /\ th'[t].pc = "pte_lock" /\ Miss(t)) =>
          Idx(t) = orderArray[0]]_vars

\* the block ids of the slots, read along the recency order from head to tail
OrderBlocks == [k \in 1..cfg.size |-> cache[orderArray[k - 1]].blocknum]

CachedBlocks == {cache[s].blocknum : s \in Slots} \ {INVALID}

\* scenario A after its fifth call, the write of b5, has returned
AfterFifth(t) == Len(hist) = 5 /\ hist # Off /\ th[t].pc = "idle" /\ th[t].n = 5

\* scenario A after its sixth call, the read of b2, has returned
AfterSixth(t) == Len(hist) = 6 /\ th[t].pc = "idle" /\ th[t].n = 6

\* C7: with one client thread every miss takes the slot whose last access is
\* oldest (never-accessed slots first, lowest index first); after writes to
\* four distinct blocks b1..b4, the write of a fifth block b5 evicts b1 with
\* one dblockwrite of b1's payload to b1 and leaves {b2,b3,b4,b5} cached, and
\* a following readblock(b2) hits, returns b2's payload and leaves the
\* recency order, as block ids, [b3,b4,b5,b2].
C7_LruEviction ==
  \A t \in Threads :
    /\ (th[t].pc = "lock" /\ Miss(t)) => Idx(t) = useOrder[1]
    /\ AfterFifth(t) =>
         /\ th[t].flushed = <<<<hist[1].blocknum, hist[1].block>>>>
         /\ blockData[hist[1].blocknum] = hist[1].block
         /\ CachedBlocks = {hist[k].blocknum : k \in 2..5}
    /\ AfterSixth(t) =>
         /\ ~Miss(t)
         /\ th[t].block = hist[2].block
         /\ OrderBlocks = <<hist[3].blocknum, hist[4].blocknum,
                            hist[5].blocknum, hist[2].blocknum>>

C7_Witness ==
  \E t \in Threads :
    AfterSixth(t) /\ th[t].block = TesterPayload(1, 1) /\ orderArray[0] = 2

\* C8: while the calls touch at most CACHESIZE distinct block ids, no slot
\* holding a block id is taken as the victim of a miss, and once all threads
\* have finished the cache holds exactly the block ids touched.
C8_NoEvictionWhenAllFit ==
  Cardinality(touched) <= cfg.size =>
    /\ \A t \in Threads :
         (InCall(t) /\ Miss(t) /\ mutex[Idx(t)] = t) => cache[Idx(t)].blocknum = INVALID
    /\ AllExited => CachedBlocks = touched

\* C9: under fair scheduling every call returns, and no reachable state is a
\* deadlock among the slot mutexes and orderMutex.
C9_EveryCallReturns ==
  /\ \A t \in Threads : []<>(~InCall(t))
  /\ [](AllExited \/ ENABLED Next)

C9_Witness ==
  \E t, u \in Threads :
    /\ t # u
    /\ th[t].pc = "lock" /\ mutex[Idx(t)] = u
    /\ th[u].pc = "pte_lock" /\ orderMutex = NoThread

\* C10: counted-access variant, scond_wait resuming only after a broadcast:
\* under fair scheduling every call started by any thread passes the entry
\* wait on orderCountZero and returns.
C10_CountedCallReturns ==
  \A t \in Threads : [](~cfg.spurious /\ InCall(t) => <>(~InCall(t)))

\* the slot mutexes thread t holds
SlotsHeld(t) == {s \in Slots : mutex[s] = t}

\* thread t is at dblockwrite (the victim is dirty) or at dblockread
InDiskCall(t) ==
  \/ th[t].pc = "flush" /\ cache[Idx(t)].dirty
  \/ th[t].pc = "load"

\* C11: in every reachable state each thread holds at most one slot mutex,
\* and a thread inside dblockread or dblockwrite holds the mutex of its
\* victim slot only: not orderMutex, and no other slot's mutex.
C11_DiskCallHoldsVictimOnly ==
  \A t \in Threads :
    /\ Cardinality(SlotsHeld(t)) <= 1
    /\ InDiskCall(t) => (SlotsHeld(t) = {Idx(t)} /\ orderMutex # t)

\* one thread is inside dblockread while another, holding another slot,
\* reshuffles orderArray
C11_Witness ==
  \E t, u \in Threads :
    /\ t # u
    /\ th[t].pc = "load"
    /\ orderMutex = u
    /\ SlotsHeld(u) # {} /\ SlotsHeld(u) # SlotsHeld(t)

\* the step in which thread t returns from readblock's miss path, releasing
\* the victim's mutex
MissReturns(t) == th[t].pc = "miss_read" /\ th'[t].pc = "idle"

\* C12: when readblock(b) takes the miss path, at the moment it releases the
\* victim's mutex the slot has blocknum = b, dirty = false and the payload
\* read from the disk for b (the one the call returns), so that a lookup of
\* b that follows hits the slot.
C12_MissLeavesBlockCached ==
  [][\A t \in Threads :
       MissReturns(t) =>
          /\ cache'[Idx(t)].blocknum = th[t].blocknum
          /\ cache'[Idx(t)].dirty = FALSE
          /\ cache'[Idx(t)].block = th'[t].block]_vars

\* C13: a missing thread never evicts on stale information: the victim it
\* is about to flush and overwrite, its mutex acquired, still has the block
\* id and the payload it had when the thread read orderArray[0].
C13_VictimUnchangedSinceChosen ==
  \A t \in Threads :
    (th[t].pc = "flush" /\ Miss(t)) => Content(cache[Idx(t)]) = th[t].chosen

\* C14: on the hit path, at the moment the thread copies the payload under
\* the slot's mutex, the slot's blocknum equals the block id b it was called
\* with; so the hit-path assignment of blocknum in writeblock never changes
\* a slot's block id.
C14_HitSlotHoldsBlock ==
  \A t \in Threads :
    th[t].pc \in {"hit_read", "hit_write"} => cache[Idx(t)].blocknum = th[t].blocknum

\* the step in which thread t reads or writes orderArray: the head read that
\* picks the victim, and putToEnd's shift and tail store (its search is part
\* of the step that takes orderMutex)
AccessesOrder(t) ==
  /\ th[t].pc \in {"head", "pte_shift", "pte_tail"}
  /\ th'[t].pc # th[t].pc

\* C15: every read and every write of orderArray after cacheinit, the head
\* read that picks a victim included, is made by a thread holding orderMutex.
C15_OrderAccessUnderMutex ==
  [][\A t \in Threads : AccessesOrder(t) => orderMutex = t]_vars

\* thread t is at a statement that reads or writes the fields of its slot
\* after the lock: the dirty check and flush, the load, the copies, the
\* assignments of blocknum and dirty
AtSlotAccess(t) ==
  th[t].pc \in {"flush", "load", "miss_read", "install", "hit_read", "hit_write"}

\* C16: a slot's blocknum, dirty and payload are written only by a thread
\* holding that slot's mutex, and its payload is read only by such a thread.
C16_SlotAccessUnderMutex ==
  /\ [](\A t \in Threads : AtSlotAccess(t) => mutex[Idx(t)] = t)
  /\ [][\A s \in Slots :
          cache'[s] # cache[s] =>
            \E t \in Threads : mutex[s] = t /\ Idx(t) = s /\ th'[t].pc # th[t].pc]_vars

\* a writer is about to fill the slot another thread is waiting to lock
C16_Witness ==
  \E t, u \in Threads :
    /\ t # u
    /\ th[t].pc \in {"install", "hit_write"} /\ mutex[Idx(t)] = t
    /\ th[u].pc = "lock" /\ Idx(u) = Idx(t)

\* C17: for every call that touches slot s there is a state between the call
\* and its return in which s is the last element of orderArray: no call
\* returns without its slot having been last since the call locked it.
C17_TouchedSlotWasLast ==
  \A t \in Threads :
    (th[t].pc \in {"idle", "exited"} /\ th[t].n >= 1) => th[t].wasLast

\* two calls that touched different slots have returned
C17_Witness ==
  \E t, u \in Threads :
    /\ th[t].pc = "exited" /\ th[u].pc = "exited"
    /\ Idx(t) # Idx(u)
    /\ orderArray[cfg.size - 1] = Idx(u)

\* thread t is executing putToEnd in the counted-access variant
InPutToEnd(t) == th[t].pc \in {"c_pte", "c_pte_shift", "c_pte_tail"}

\* C18: counted-access variant: the orderCount protocol is a mutual-exclusion
\* region: at most one thread is executing putToEnd, no thread is at the read
\* of orderArray[0] while another executes putToEnd, and orderCount = -1
\* whenever a thread executes putToEnd.
C18_PutToEndExclusive ==
  \A t \in Threads :
    InPutToEnd(t) =>
      /\ orderCount = -1
      /\ \A u \in Threads \ {t} : ~InPutToEnd(u) /\ th[u].pc # "c_head"

\* the array read from position 0 to the last, as a sequence
AsSeq(arr) == [k \in 1..cfg.size |-> arr[k - 1]]

\* C19: putToEnd(s), run on a permutation of the slot indices with s in
\* range, leaves the old sequence with s taken out and put at the end, the
\* other elements in their old order; nothing changes when s is already last.
C19_PutToEndMovesToEnd ==
  [][\A t \in Threads :
       th'[t].n = th[t].n + 1 =>
          /\ IsPermutation(orderArray)
          /\ AsSeq(orderArray') = Touch(AsSeq(orderArray), th'[t].indexToReplace)
          /\ (orderArray[cfg.size - 1] = th'[t].indexToReplace
                => orderArray' = orderArray)]_vars

\* a slot from the middle of a reordered array has just been moved to the end
C19_Witness ==
  \E t \in Threads :
    /\ th[t].n = PteCalls
    /\ orderArray[cfg.size - 1] = Idx(t)
    /\ orderArray[0] \notin {0, Idx(t) + 1}
    /\ orderArray[cfg.size - 2] < Idx(t)

\* C20: whenever a slot's mutex is free and the slot is dirty, its blocknum
\* is not INVALID and its payload is the one passed to the most recent
\* writeblock that wrote the slot, for that same blocknum; so every
\* dblockwrite(payload, n) of the cache has n in 0..NBLOCKS-1 and carries a
\* payload a client passed to writeblock for block n.
C20_DirtySlotHoldsLastWrite ==
  /\ \A s \in Slots :
       (mutex[s] = NoThread /\ cache[s].dirty) =>
          /\ cache[s].blocknum # INVALID
          /\ lastWrite[s] = Content(cache[s])
  /\ \A t \in Threads :
       (th[t].pc = "flush" /\ cache[Idx(t)].dirty) =>
          /\ cache[Idx(t)].blocknum \in 0..(NBLOCKS - 1)
          /\ lastWrite[Idx(t)] = Content(cache[Idx(t)])

\* a slot was left dirty and unlocked by a writeblock, and a readblock that
\* missed has locked it and is about to flush it
C20_Witness ==
  \E t \in Threads :
    /\ th[t].pc = "flush" /\ th[t].op = "read"
    /\ cache[Idx(t)].dirty
    /\ \E u \in Threads : u # t /\ th[u].op = "write" /\ ~InCall(u)

====
